---- MODULE Spec2Model ----
(***************************************************************************)
(* Model of get_reaction_info.py (the extractor get_reaction_info and the  *)
(* ReactionInfo record) and of test_get_reaction_info.py (the script that  *)
(* loops over the reactions of a mechanism and writes the report file).    *)
(*                                                                         *)
(* Numbers.  The program computes in floating point; the model uses        *)
(* integers.  Energies are in units of 1e-4 J/kmol, so that the gas        *)
(* constant 8314.4621 is the integer Ruc and the division by it is exact   *)
(* on the activation energies drawn here.  Efficiencies are in tenths.     *)
(* Stoichiometric coefficients are integers and every reaction has at      *)
(* least one reactant, so 1E3 ** (reac_order - 1) is an integer; the       *)
(* reaction orders drawn are 1 and 2, which keeps every product within     *)
(* the 32-bit integers of the model checker.                               *)
(*                                                                         *)
(* Output.  `out' is the sequence of lines handed to file.write; a line is *)
(* a record whose field t names the format string and whose other fields   *)
(* are the values substituted into it.                                     *)
(***************************************************************************)
EXTENDS Integers, Sequences, FiniteSets, TLC

VARIABLES g, i, pc, file, out, r1, reac

vars == <<g, i, pc, file, out, r1, reac>>

\* ------------------------------------------------------------------------
\* Bounds of the model
\* ------------------------------------------------------------------------
MaxReactions == 3

\* ------------------------------------------------------------------------
\* Program constants
\* ------------------------------------------------------------------------
Ruc == 83144621
Kilo == 1000
LINDEMANN == 100
TROE == 110

\* ------------------------------------------------------------------------
\* The kinetics model g (the external collaborator): what the program reads
\* ------------------------------------------------------------------------
\* g.species_names: the species of the mechanism, in index order (0-based).
Species == <<"H2", "O2", "H2O", "AR">>

\* g.species_index(name): the 0-based position of name in the species list.
species_index(name) == (CHOOSE k \in 1..Len(Species) : Species[k] = name) - 1

\* The species that may carry a third-body efficiency, with the efficiency
\* (in tenths) the mechanism gives each of them.
Enhanced == {"AR", "H2O"}
EffValue(name) == IF name = "AR" THEN 7 ELSE IF name = "H2O" THEN 120 ELSE 25

\* r1.efficiencies: a mapping, represented by its items in iteration order
\* (a sequence of <<species name, efficiency>> without repeated names), over
\* any subset of the enhanced species in any order.
EffMaps ==
    { m \in UNION { [1..n -> { <<s, EffValue(s)>> : s \in Enhanced }] :
                        n \in 0..Cardinality(Enhanced) } :
        \A a, b \in 1..Len(m) : a # b => m[a][1] # m[b][1] }

\* dict.keys() and dict.values(): the keys and the values of one traversal.
keys(m) == [n \in 1..Len(m) |-> m[n][1]]
values(m) == [n \in 1..Len(m) |-> m[n][2]]

\* Arrhenius rate objects: pre_exponential_factor, temperature_exponent,
\* activation_energy.
HighRates == { [A |-> 2, b |-> 0, Ea |-> 0], [A |-> 5, b |-> -1, Ea |-> 3 * Ruc] }
LowRates == { [A |-> 7, b |-> -2, Ea |-> 2 * Ruc] }

\* The reactant side of a reaction: its column of g.reactant_stoich_coeffs()
\* (one coefficient per species), its reversibility and its equation string.
Sides ==
    { [stoich |-> <<1, 0, 0, 0>>, reversible |-> FALSE, equation |-> "H2 => 2 H"],
      [stoich |-> <<0, 0, 2, 0>>, reversible |-> TRUE, equation |-> "2 H2O <=> H2 + 2 OH"] }

\* r1.falloff: falloff_type and parameters.  A Troe object always carries
\* four parameters (T2 is 0 when the mechanism omits it).  112 is a fall-off
\* function the extractor has no branch for.
Falloffs ==
    { [falloff_type |-> LINDEMANN, parameters |-> <<>>],
      [falloff_type |-> TROE, parameters |-> <<5, 10, 1000, 0>>],
      [falloff_type |-> TROE, parameters |-> <<5, 10, 1000, 50>>],
      [falloff_type |-> 112, parameters |-> <<1, 2, 3, 1, 0>>] }

\* Type codes the extractor does not know, besides the PLOG code 5.
OtherCodes == {99}

\* The reactions a mechanism is drawn from.  Elementary reactions range over
\* the sides (reaction order 1 and 2); three-body reactions over every
\* efficiencies mapping; fall-off reactions over every fall-off function, with
\* an empty or a full efficiencies mapping.
ElementaryReactions ==
    { [reaction_type |-> 1, side |-> s, rate |-> k] :
        s \in Sides, k \in {x \in HighRates : x.A = 2} }

ThreeBodyReactions ==
    { [reaction_type |-> 2, side |-> s, rate |-> k, efficiencies |-> m] :
        s \in {x \in Sides : x.reversible}, k \in {x \in HighRates : x.A = 5}, m \in EffMaps }

FalloffReactions ==
    { [reaction_type |-> 4, side |-> s, high_rate |-> k, low_rate |-> l,
       efficiencies |-> m, falloff |-> f] :
        s \in {x \in Sides : x.reversible}, k \in {x \in HighRates : x.A = 5},
        l \in LowRates, m \in {x \in EffMaps : Len(x) \in {0, Cardinality(Enhanced)}},
        f \in Falloffs }

PlogReactions ==
    { [reaction_type |-> 5, side |-> s] : s \in {x \in Sides : x.reversible} }

OtherReactions ==
    { [reaction_type |-> c, side |-> s] : c \in OtherCodes, s \in {x \in Sides : ~x.reversible} }

Reactions ==
    ElementaryReactions \cup ThreeBodyReactions \cup FalloffReactions
        \cup PlogReactions \cup OtherReactions

\* The mechanisms: 1 to MaxReactions reactions.
Mechanisms == UNION { [1..n -> Reactions] : n \in 1..MaxReactions }

\* g.reaction(k), k 0-based.
reaction(gg, k) == gg[k + 1]

\* g.n_reactions
II == Len(g)

\* g.reactant_stoich_coeffs(): Sf[k, j] for species k and reaction j (0-based).
reactant_stoich_coeffs(gg) ==
    [k \in 0..(Len(Species) - 1), j \in 0..(Len(gg) - 1) |-> gg[j + 1].side.stoich[k + 1]]

\* ------------------------------------------------------------------------
\* get_reaction_info.py
\* ------------------------------------------------------------------------
\* ReactionInfo.__init__: the record as constructed.
ReactionInfo ==
    [kind |-> "ReactionInfo",
     isReversible |-> FALSE, isThirdbody |-> FALSE, isFalloff |-> FALSE,
     isChemical |-> FALSE, isPLOG |-> FALSE, isSimple |-> FALSE,
     isLindemann |-> FALSE, isTroe |-> FALSE, isTroe6 |-> FALSE, isTroe7 |-> FALSE,
     RA |-> 0, RB |-> 0, RE |-> 0,
     ITHB |-> -1, AIK |-> <<>>, NKTB |-> <<>>,
     Fall |-> <<>>]

\* The value `return 0' hands back: an int, not a ReactionInfo.
Sentinel == [kind |-> "int", value |-> 0]

\* The value of `reac' before the first call.
Unset == [kind |-> "unset"]

\* `if r1.reversible: reac.isReversible = True'
SetReversible(rc, rx) == [rc EXCEPT !.isReversible = rx.side.reversible]

\* RA, RB, RE from an Arrhenius rate; E is divided by ruc.
SetForward(rc, rate) ==
    [rc EXCEPT !.RA = rate.A, !.RB = rate.b, !.RE = rate.Ea \div Ruc]

\* The low-pressure triple appended to Fall.
AppendLow(rc, rate) ==
    [rc EXCEPT !.Fall = Append(Append(Append(@, rate.A), rate.b), rate.Ea \div Ruc)]

\* Keys and values obtained from traversals in opposite orders.
SetThirdBody_Unpaired(rc, efficiencies) ==
    LET n_third == Len(efficiencies)
    IN  [rc EXCEPT !.ITHB = n_third,
                   !.NKTB = @ \o [n \in 1..n_third |-> species_index(efficiencies[n][1])],
                   !.AIK = @ \o [n \in 1..n_third |-> efficiencies[n_third + 1 - n][2]]]

\* The third-body loop: ITHB, and NKTB / AIK appended position by position
\* from list(efficiencies.keys()) and list(efficiencies.values()).
SetThirdBody(rc, efficiencies) ==
    LET third_body_species == keys(efficiencies)
        third_body_efficients == values(efficiencies)
        n_third == Len(third_body_species)
    IN  [rc EXCEPT !.ITHB = n_third,
                   !.NKTB = @ \o [n \in 1..n_third |-> species_index(third_body_species[n])],
                   !.AIK = @ \o [n \in 1..n_third |-> third_body_efficients[n]]]

\* A Lindemann test that never matches.
SetLindemann_Never(rc, falloff) == rc

\* `if r1.falloff.falloff_type == 100'
SetLindemann(rc, falloff) ==
    IF falloff.falloff_type = LINDEMANN THEN [rc EXCEPT !.isLindemann = TRUE] ELSE rc

\* The t2 test inverted.
SetTroe_Swapped(rc, falloff) ==
    IF falloff.falloff_type = TROE
    THEN [rc EXCEPT !.isTroe = TRUE,
                    !.isTroe6 = (falloff.parameters[4] # 0),
                    !.isTroe7 = (falloff.parameters[4] = 0),
                    !.Fall = @ \o SubSeq(falloff.parameters, 1, 4)]
    ELSE rc

\* `if r1.falloff.falloff_type == 110': the flags, and alpha, t3, t1, t2 all
\* appended to Fall whatever t2 is.
SetTroe(rc, falloff) ==
    IF falloff.falloff_type = TROE
    THEN LET troe_parameters == falloff.parameters
             alpha == troe_parameters[1]
             t3 == troe_parameters[2]
             t1 == troe_parameters[3]
             t2 == troe_parameters[4]
         IN  [rc EXCEPT !.isTroe = TRUE,
                        !.isTroe6 = (t2 = 0),
                        !.isTroe7 = (t2 # 0),
                        !.Fall = @ \o <<alpha, t3, t1, t2>>]
    ELSE rc

\* A slip that lets the else branch fall through to `return reac'.
Unsupported_ReturnsReac(rc, rx) == rc

\* An extractor that fills the per-pressure fields for the PLOG code 5.
Unsupported_FillsPlog(rc, rx) ==
    IF rx.reaction_type = 5
    THEN [NPLG |-> 1, P_plog |-> <<101325>>, A_plog |-> <<3>>, B_plog |-> <<0>>,
          E_plog |-> <<1>>] @@ [rc EXCEPT !.isPLOG = TRUE]
    ELSE Sentinel

\* The else branch: print('Unknown reaction type, no supported!'); return 0
Unsupported(rc, rx) == Sentinel

\* get_reaction_info(g, i): the record of reaction i (0-based), or the
\* sentinel for a type code other than 1, 2, 4.
get_reaction_info(gg, k) ==
    LET rx == reaction(gg, k)
        R_type == rx.reaction_type
        rc == SetReversible(ReactionInfo, rx)
    IN  IF R_type = 1
        THEN SetForward([rc EXCEPT !.isSimple = TRUE], rx.rate)
        ELSE IF R_type = 2
        THEN SetThirdBody(SetForward([rc EXCEPT !.isThirdbody = TRUE], rx.rate),
                          rx.efficiencies)
        ELSE IF R_type = 4
        THEN SetTroe(
               SetLindemann(
                 SetThirdBody(
                   AppendLow(SetForward([rc EXCEPT !.isFalloff = TRUE], rx.high_rate),
                             rx.low_rate),
                   rx.efficiencies),
                 rx.falloff),
               rx.falloff)
        ELSE Unsupported(rc, rx)

\* ------------------------------------------------------------------------
\* test_get_reaction_info.py: the report loop
\* ------------------------------------------------------------------------
RECURSIVE SumOver(_, _)
SumOver(f, S) ==
    IF S = {} THEN 0
    ELSE LET k == CHOOSE x \in S : TRUE IN f[k] + SumOver(f, S \ {k})

\* coef_f = Sf[:, k]; sp_index_f = np.nonzero(coef_f)[0];
\* r_coef_f = coef_f[sp_index_f]; reac_order = np.sum(r_coef_f)
reac_order(Sf, k) ==
    LET coef_f == [s \in 0..(Len(Species) - 1) |-> Sf[s, k]]
        sp_index_f == { s \in DOMAIN coef_f : coef_f[s] # 0 }
    IN  SumOver(coef_f, sp_index_f)

\* The exponent without the `- 1'.
Convert_A_NoMinusOne(order) == Kilo ^ order

\* Convert_A = 1E3 ** (reac_order - 1)
Convert_A(order) == Kilo ^ (order - 1)

\* The header with the 0-based index.
Header_ZeroBased(k, rx) ==
    [t |-> "C R", index |-> k, equation |-> rx.side.equation,
     R_type |-> rx.reaction_type]

\* 'C R%g: %s Reaction type: %g\n' % (i+1, r1.equation, R_type)
Header(k, rx) ==
    [t |-> "C R", index |-> k + 1, equation |-> rx.side.equation,
     R_type |-> rx.reaction_type]

\* 'C forward temperature dependent reaction rate\n' and
\* '      RF = %+.15E*T**%+.15E*EXP(%+.15E/T)\n' % (A_high, B_high, -E_high)
ForwardLines(A_high, B_high, E_high) ==
    << [t |-> "C forward"], [t |-> "RF", A |-> A_high, B |-> B_high, E |-> -E_high] >>

\* 'C Third body information\n', the count line, and one line per n in
\* range(0, N_third_body) with reac.NKTB[n] and reac.AIK[n].
ThirdBodyLines(rc) ==
    LET N_third_body == rc.ITHB
    IN  << [t |-> "C Third body"], [t |-> "Number", n |-> N_third_body] >>
        \o [n \in 1..N_third_body |->
              [t |-> "Species", index |-> rc.NKTB[n], efficiency |-> rc.AIK[n]]]

\* R_type == 1
SimpleLines(rc, CA) ==
    ForwardLines(rc.RA * CA, rc.RB, rc.RE)

\* R_type == 2
ThreeBodyLines(rc, CA) ==
    << [t |-> "C have third-body"] >>
    \o ForwardLines(rc.RA * Kilo * CA, rc.RB, rc.RE)
    \o ThirdBodyLines(rc)

\* R_type == 4: the sub-type lines, chosen by the flags of the record.
LowLines(rc, label, A_low, B_low, E_low) ==
    << [t |-> label], [t |-> "Low", A |-> A_low, B |-> B_low, E |-> E_low] >>

FalloffLines(rc, CA) ==
    LET A_low == rc.Fall[1] * Kilo * CA
        B_low == rc.Fall[2]
        E_low == rc.Fall[3]
    IN  << [t |-> "C fall off"] >>
        \o ForwardLines(rc.RA * CA, rc.RB, rc.RE)
        \o ThirdBodyLines(rc)
        \o (IF rc.isLindemann
            THEN LowLines(rc, "C Lindemann 3-parameters", A_low, B_low, E_low)
            ELSE <<>>)
        \o (IF rc.isTroe6
            THEN LowLines(rc, "C Troe 6-parameters", A_low, B_low, E_low)
                 \o << [t |-> "alpha", shape |-> <<rc.Fall[4], rc.Fall[5], rc.Fall[6]>>] >>
            ELSE <<>>)
        \o (IF rc.isTroe7
            THEN LowLines(rc, "C Troe 7-parameters", A_low, B_low, E_low)
                 \o << [t |-> "alpha",
                        shape |-> <<rc.Fall[4], rc.Fall[5], rc.Fall[6], rc.Fall[7]>>] >>
            ELSE <<>>)

\* R_type == 5, once reac.NPLG and the per-pressure lists have been read.
PlogLines(rc, CA) ==
    [n \in 1..(2 * rc.NPLG) |->
        IF n % 2 = 1
        THEN [t |-> "P", P |-> rc.P_plog[(n + 1) \div 2]]
        ELSE [t |-> "RF", A |-> rc.A_plog[n \div 2] * CA, B |-> rc.B_plog[n \div 2],
              E |-> -rc.E_plog[n \div 2]]]

\* Whether `reac.NPLG', `reac.P_plog', ... can be read: an int and a
\* ReactionInfo without these attributes raise AttributeError.
HasPlogFields(rc) == {"NPLG", "P_plog", "A_plog", "B_plog", "E_plog"} \subseteq DOMAIN rc

\* 'C\n'
Terminator == [t |-> "C"]

\* The indices (0-based) of reac.Fall that the type-4 branch reads.
FallRead(rc) ==
    {0, 1, 2} \cup (IF rc.isTroe6 THEN {3, 4, 5} ELSE {})
              \cup (IF rc.isTroe7 THEN {3, 4, 5, 6} ELSE {})

\* The indices (0-based) of reac.NKTB and reac.AIK that the loops read.
ThirdRead(rc) == 0..(rc.ITHB - 1)

\* ------------------------------------------------------------------------
\* State machine
\* ------------------------------------------------------------------------
\* After `g = ct.Solution(...)': the mechanism is loaded, nothing is open.
\* i is the index of the next reaction the loop takes.
Init ==
    /\ g \in Mechanisms
    /\ i = 0
    /\ pc = "start"
    /\ file = "unopened"
    /\ out = <<>>
    /\ r1 = Unset
    /\ reac = Unset

\* file = open('get_reaction_info.txt', 'w')
OpenFile ==
    /\ pc = "start"
    /\ file' = "open"
    /\ out' = <<>>
    /\ pc' = "loop"
    /\ UNCHANGED <<g, i, r1, reac>>

\* The head of one iteration: r1, reac, Convert_A and the header line.
Iteration(R_types) ==
    /\ pc = "loop"
    /\ i < II
    /\ reaction(g, i).reaction_type \in R_types
    /\ r1' = reaction(g, i)
    /\ reac' = get_reaction_info(g, i)
    /\ UNCHANGED <<g, file>>

CA == Convert_A(reac_order(reactant_stoich_coeffs(g), i))

\* An iteration that runs to the end of the loop body.
Completes(lines) ==
    /\ out' = (out \o << Header(i, reaction(g, i)) >>) \o lines \o << Terminator >>
    /\ i' = i + 1
    /\ pc' = "loop"

ReportSimple ==
    /\ Iteration({1})
    /\ Completes(SimpleLines(reac', CA))

ReportThreeBody ==
    /\ Iteration({2})
    /\ Completes(ThreeBodyLines(reac', CA))

ReportFalloff ==
    /\ Iteration({4})
    /\ Completes(FalloffLines(reac', CA))

\* R_type == 5: 'C PLOG\n' is written, then reac.NPLG is read.  Reading it
\* from a value without that attribute ends the run with AttributeError.
ReportPlog ==
    /\ Iteration({5})
    /\ IF HasPlogFields(reac')
       THEN Completes(<< [t |-> "C PLOG"] >> \o PlogLines(reac', CA))
       ELSE /\ out' = out \o << Header(i, reaction(g, i)), [t |-> "C PLOG"] >>
            /\ pc' = "AttributeError"
            /\ UNCHANGED i

\* The type test made before the header is written.
ReportUnknown_BeforeHeader ==
    /\ pc = "loop"
    /\ i < II
    /\ reaction(g, i).reaction_type \notin {1, 2, 4, 5}
    /\ r1' = reaction(g, i)
    /\ reac' = get_reaction_info(g, i)
    /\ pc' = "sys.exit"
    /\ UNCHANGED <<g, i, file, out>>

\* else: print(...); sys.exit()
ReportUnknown ==
    /\ pc = "loop"
    /\ i < II
    /\ reaction(g, i).reaction_type \notin {1, 2, 4, 5}
    /\ r1' = reaction(g, i)
    /\ reac' = get_reaction_info(g, i)
    /\ out' = Append(out, Header(i, reaction(g, i)))
    /\ pc' = "sys.exit"
    /\ UNCHANGED <<g, i, file>>

\* file.close(), after the loop.
CloseFile ==
    /\ pc = "loop"
    /\ i = II
    /\ file' = "closed"
    /\ pc' = "done"
    /\ UNCHANGED <<g, i, out, r1, reac>>

Next ==
    \/ OpenFile
    \/ ReportSimple
    \/ ReportThreeBody
    \/ ReportFalloff
    \/ ReportPlog
    \/ ReportUnknown
    \/ CloseFile

Spec == Init /\ [][Next]_vars

\* The script runs without interruption: a step that can be taken is taken.
FairSpec == Spec /\ WF_vars(Next)

TypeOK ==
    /\ g \in Mechanisms
    /\ i \in 0..II
    /\ pc \in {"start", "loop", "done", "sys.exit", "AttributeError"}
    /\ file \in {"unopened", "open", "closed"}
    /\ reac.kind \in {"unset", "int", "ReactionInfo"}

\* ------------------------------------------------------------------------
\* Properties
\* ------------------------------------------------------------------------
\* The extractor has been called: r1 is the reaction read, reac its result.
Extracted == reac # Unset

IsRecord == reac.kind = "ReactionInfo"

\* The lines of `out' from its last header line on.
LastHeaderPos == CHOOSE p \in 1..Len(out) :
                    /\ out[p].t = "C R"
                    /\ \A q \in (p + 1)..Len(out) : out[q].t # "C R"
LastBlock == SubSeq(out, LastHeaderPos, Len(out))

\* The positions of `out' holding a line of the given kind.
Pos(kind) == { p \in 1..Len(out) : out[p].t = kind }

\* An iteration has just run to its end for the reaction r1.
BlockDone == pc = "loop" /\ i > 0

\* C1: get_reaction_info returns the sentinel 0 for every type code outside
\* {1, 2, 4} (the PLOG code 5 included) and a ReactionInfo record for every
\* code in {1, 2, 4}.
C1_SentinelIffUnsupported ==
    Extracted =>
        /\ r1.reaction_type \in {1, 2, 4} => IsRecord /\ reac # Sentinel
        /\ r1.reaction_type \notin {1, 2, 4} => reac = Sentinel /\ ~IsRecord

C1_Witness == Extracted /\ r1.reaction_type = 5 /\ reac = Sentinel

\* C2 as stated: at the hard stop on reaction i nothing of reaction i, not
\* even a partial block, is in the output: the output holds i headers and
\* ends with the terminator of block i-1.
C2_NothingWrittenAtStop ==
    pc = "sys.exit" =>
        /\ Cardinality(Pos("C R")) = i
        /\ out # <<>> => out[Len(out)].t = "C"

\* C2 amended: at the hard stop on reaction i the output holds the i complete
\* blocks of the reactions before i followed by the header line of reaction i
\* and nothing else.
C2_HeaderOnlyAtStop ==
    pc = "sys.exit" =>
        /\ r1.reaction_type \notin {1, 2, 4, 5}
        /\ Cardinality(Pos("C R")) = i + 1
        /\ Cardinality(Pos("C")) = i
        /\ out[Len(out)] = [t |-> "C R", index |-> i + 1,
                            equation |-> g[i + 1].side.equation,
                            R_type |-> g[i + 1].reaction_type]
        /\ i > 0 => out[Len(out) - 1].t = "C"
        /\ \A p \in Pos("C R") : out[p].index <= i + 1

C2_Witness == pc = "sys.exit" /\ i = 1 /\ Len(g) = 3 /\ Len(out) > 3

\* C3: whenever the run has ended, on any path, the output file is closed.
C3_FileClosedAtEnd ==
    pc \in {"done", "sys.exit", "AttributeError"} => file = "closed"

\* C4: ITHB >= 0 implies len(NKTB) = len(AIK) = ITHB; for code 2 and 4 ITHB
\* is the size of the efficiencies mapping and position n of NKTB / AIK holds
\* the species index / the efficiency of the n-th species of the mapping; for
\* code 1 ITHB is -1 and both lists are empty.
C4_ThirdBodyPaired ==
    IsRecord =>
        /\ reac.ITHB >= 0 => Len(reac.NKTB) = reac.ITHB /\ Len(reac.AIK) = reac.ITHB
        /\ r1.reaction_type \in {2, 4} =>
              /\ reac.ITHB = Len(r1.efficiencies)
              /\ \A n \in 1..Len(r1.efficiencies) :
                    /\ reac.NKTB[n] \in 0..(Len(Species) - 1)
                    /\ Species[reac.NKTB[n] + 1] = r1.efficiencies[n][1]
                    /\ reac.AIK[n] = r1.efficiencies[n][2]
        /\ r1.reaction_type = 1 =>
              reac.ITHB = -1 /\ reac.NKTB = <<>> /\ reac.AIK = <<>>

C4_Witness ==
    IsRecord /\ r1.reaction_type = 2 /\ reac.ITHB = 2 /\ reac.NKTB = <<3, 2>>
        /\ reac.AIK = <<7, 120>>

\* C5 as stated: len(Fall) is 0 for a non-fall-off reaction, 3 for Lindemann,
\* 6 for Troe with T2 = 0 and 7 for Troe with T2 # 0; Fall[0:3] is the
\* low-pressure triple; T2 is in Fall only for the 7-parameter form.
C5_FallLength ==
    IsRecord =>
        /\ r1.reaction_type # 4 => Len(reac.Fall) = 0
        /\ r1.reaction_type = 4 =>
              /\ SubSeq(reac.Fall, 1, 3)
                    = <<r1.low_rate.A, r1.low_rate.b, r1.low_rate.Ea \div Ruc>>
              /\ r1.falloff.falloff_type = LINDEMANN => Len(reac.Fall) = 3
              /\ r1.falloff.falloff_type = TROE /\ r1.falloff.parameters[4] = 0
                    => Len(reac.Fall) = 6
              /\ r1.falloff.falloff_type = TROE /\ r1.falloff.parameters[4] # 0
                    => Len(reac.Fall) = 7

\* C6: exactly one of isSimple, isThirdbody, isFalloff is true, the one of
\* the type code; isPLOG and isChemical are false; isLindemann and isTroe
\* are not both true and need isFalloff; isTroe6 and isTroe7 are not both
\* true and each implies isTroe; for Troe, isTroe6 iff T2 = 0, else isTroe7.
C6_FlagsWellFormed ==
    IsRecord =>
        /\ reac.isSimple = (r1.reaction_type = 1)
        /\ reac.isThirdbody = (r1.reaction_type = 2)
        /\ reac.isFalloff = (r1.reaction_type = 4)
        /\ Cardinality({ f \in {"isSimple", "isThirdbody", "isFalloff"} : reac[f] }) = 1
        /\ ~reac.isPLOG /\ ~reac.isChemical
        /\ ~(reac.isLindemann /\ reac.isTroe)
        /\ (reac.isLindemann \/ reac.isTroe) => reac.isFalloff
        /\ ~(reac.isTroe6 /\ reac.isTroe7)
        /\ (reac.isTroe6 \/ reac.isTroe7) => reac.isTroe
        /\ reac.isTroe =>
              /\ reac.isTroe6 = (r1.falloff.parameters[4] = 0)
              /\ reac.isTroe7 = (r1.falloff.parameters[4] # 0)

C6_Witness ==
    IsRecord /\ reac.isFalloff /\ reac.isTroe /\ reac.isTroe6
        /\ r1.falloff.parameters[4] = 0

RECURSIVE SeqSum(_)
SeqSum(q) == IF q = <<>> THEN 0 ELSE Head(q) + SeqSum(Tail(q))

\* The reaction order of r1 and the conversion factor, from the raw column.
Order == SeqSum(r1.side.stoich)
Factor == 1000 ^ (Order - 1)

\* The lines of the given kind in the last block, in order.
LastLines(kind) == SelectSeq(LastBlock, LAMBDA l : l.t = kind)

\* C7: with order the sum of the reactant coefficients of the reaction and
\* ConvertA = 1000^(order-1), the forward-rate line carries RA*ConvertA for
\* type 1, RA*1000*ConvertA for type 2, RA*ConvertA for type 4, a printed
\* low-pressure A is Fall[0]*1000*ConvertA, and the exponent term is -RE.
C7_PrintedFactors ==
    (BlockDone /\ r1.reaction_type \in {1, 2, 4} /\ Order >= 1) =>
        /\ Len(LastLines("RF")) = 1
        /\ LastLines("RF")[1].A =
              reac.RA * Factor * (IF r1.reaction_type = 2 THEN 1000 ELSE 1)
        /\ LastLines("RF")[1].B = reac.RB
        /\ LastLines("RF")[1].E = 0 - reac.RE
        /\ \A n \in 1..Len(LastLines("Low")) :
              LastLines("Low")[n].A = reac.Fall[1] * 1000 * Factor

C7_Witness ==
    /\ BlockDone /\ r1.reaction_type = 4 /\ Order = 2
    /\ Len(LastLines("Low")) = 1
    /\ LastLines("Low")[1].A = 7000000
    /\ LastLines("RF")[1] = [t |-> "RF", A |-> 5000, B |-> -1, E |-> -3]

\* C8 as stated: no PLOG output at all is ever written: no marker line, no
\* pressure line, no per-pressure rate-law line.
C8_NoPlogOutput == Pos("C PLOG") = {} /\ Pos("P") = {}

\* C8 amended: the PLOG marker line is written for the first type-5 reaction
\* the loop reaches, right after its header, and is the last line of the
\* output: the run ends there with AttributeError, and no pressure line or
\* per-pressure rate-law line is ever written.
C8_MarkerThenFailure ==
    /\ Pos("P") = {}
    /\ \A p \in Pos("C PLOG") :
          /\ p = Len(out)
          /\ pc = "AttributeError"
          /\ p > 1 /\ out[p - 1].t = "C R" /\ out[p - 1].R_type = 5
    /\ pc = "AttributeError" =>
          /\ r1.reaction_type = 5 /\ reac = Sentinel
          /\ Pos("C PLOG") = {Len(out)}
    /\ pc # "AttributeError" => \A k \in 1..i : g[k].reaction_type # 5

C8_Witness ==
    pc = "AttributeError" /\ i = 1 /\ out[Len(out)].t = "C PLOG" /\ Len(out) > 2

\* The data lines (those that are not comment lines) of the last block.
DataKinds ==
    LET d == SelectSeq(LastBlock,
                       LAMBDA l : l.t \in {"RF", "Number", "Species", "Low", "alpha"})
    IN  [n \in 1..Len(d) |-> d[n].t]

\* The lines every fall-off block has: the forward-rate line, the count line
\* and ITHB species lines carrying NKTB[n], AIK[n] in order; and the reads of
\* Fall, NKTB and AIK stay within the record.
FalloffCommon ==
    /\ SubSeq(DataKinds, 1, 2 + reac.ITHB)
          = <<"RF", "Number">> \o [n \in 1..reac.ITHB |-> "Species"]
    /\ LastLines("Number")[1].n = reac.ITHB
    /\ Len(LastLines("Species")) = reac.ITHB
    /\ \A n \in 1..reac.ITHB :
          /\ LastLines("Species")[n].index = reac.NKTB[n]
          /\ LastLines("Species")[n].efficiency = reac.AIK[n]
    /\ FallRead(reac) \subseteq 0..(Len(reac.Fall) - 1)
    /\ ThirdRead(reac) \subseteq 0..(Len(reac.NKTB) - 1)
    /\ ThirdRead(reac) \subseteq 0..(Len(reac.AIK) - 1)
    /\ LastBlock[Len(LastBlock)] = [t |-> "C"]

\* The low-pressure line and the shape line that follow the species lines.
FalloffTail ==
    /\ Len(LastLines("Low")) = 1
    /\ LastLines("Low")[1].B = reac.Fall[2] /\ LastLines("Low")[1].E = reac.Fall[3]
    /\ SubSeq(DataKinds, 3 + reac.ITHB, Len(DataKinds))
          = <<"Low">> \o (IF r1.falloff.falloff_type = TROE THEN <<"alpha">> ELSE <<>>)
    /\ r1.falloff.falloff_type = TROE =>
          LastLines("alpha")[1].shape =
              IF r1.falloff.parameters[4] = 0
              THEN SubSeq(r1.falloff.parameters, 1, 3)
              ELSE SubSeq(r1.falloff.parameters, 1, 4)

\* C9 as stated: every type-4 block, whatever the fall-off sub-type code,
\* has the forward-rate line, the count line, ITHB species lines, then exactly
\* one low-pressure line, then the shape line for Troe only.
C9_LowLineAlways ==
    (BlockDone /\ r1.reaction_type = 4) => FalloffCommon /\ FalloffTail

\* C9 amended: every type-4 block has the forward-rate line, the count line
\* and ITHB species lines in extraction order, all reads within the record;
\* for sub-type code 100 or 110 exactly one low-pressure line follows, and
\* then the shape line for Troe (3 values if T2 = 0, else 4); for any other
\* sub-type code the block has no low-pressure line and no shape line.
C9_LowLineForKnownSubtypes ==
    (BlockDone /\ r1.reaction_type = 4) =>
        /\ FalloffCommon
        /\ r1.falloff.falloff_type \in {LINDEMANN, TROE} => FalloffTail
        /\ r1.falloff.falloff_type \notin {LINDEMANN, TROE} =>
              Len(DataKinds) = 2 + reac.ITHB

C9_Witness ==
    /\ BlockDone /\ r1.reaction_type = 4 /\ r1.falloff.falloff_type = LINDEMANN
    /\ reac.ITHB = 2
    /\ DataKinds = <<"RF", "Number", "Species", "Species", "Low">>

\* The run has ended.
Halted == pc \in {"done", "sys.exit", "AttributeError"}

\* The k-th header line of the output, counted from 1.
HeaderRank(p) == Cardinality({ q \in Pos("C R") : q <= p })

C10_Shape ==
    /\ \A p \in Pos("C R") :
          /\ out[p] = [t |-> "C R", index |-> HeaderRank(p),
                       equation |-> g[HeaderRank(p)].side.equation,
                       R_type |-> g[HeaderRank(p)].reaction_type]
          /\ p > 1 => out[p - 1] = [t |-> "C"]
    /\ out # <<>> => out[1].t = "C R"
    /\ pc \in {"loop", "done"} =>
          /\ Cardinality(Pos("C R")) = i /\ Cardinality(Pos("C")) = i
          /\ out # <<>> => out[Len(out)] = [t |-> "C"]
    /\ pc = "done" =>
          /\ i = Len(g)
          /\ \A k \in 1..Len(g) : g[k].reaction_type \in {1, 2, 4}
    /\ pc \in {"sys.exit", "AttributeError"} =>
          /\ g[i + 1].reaction_type \notin {1, 2, 4}
          /\ \A k \in 1..i : g[k].reaction_type \in {1, 2, 4}

\* C10: the run ends; a mechanism of n reactions with type codes in
\* {1, 2, 4} ends with n complete blocks, in index order, each from its
\* header (1-based index, equation, raw type code) to its terminator, no
\* block begun before the previous one is complete; any other run halts at
\* the first reaction whose type code is outside {1, 2, 4}.
C10_FullPassOrHalt == []C10_Shape /\ <>Halted

C10_Witness ==
    /\ pc = "done" /\ Len(g) = 3
    /\ { g[k].reaction_type : k \in 1..3 } = {1, 2, 4}
    /\ Cardinality(Pos("C")) = 3

====
